---- MODULE Spec2Model ----
(***************************************************************************)
(* State-machine model of the SnakeRush game engine                        *)
(* (src/backend/game_logic.py, class SnakeGame).                           *)
(*                                                                         *)
(* Positions are pairs <<x, y>>.  The snake is a sequence of positions,    *)
(* head first.  The obstacle list is kept as a set: the code only ever     *)
(* tests membership of it.  speed is a fixed-point number in tenths        *)
(* (40 is 4, 55 is 5.5, 120 is 12), because the code mixes the integer 4   *)
(* with multiples of 1.5.                                                  *)
(*                                                                         *)
(* The second half models the leaderboard store                            *)
(* (src/backend/leaderboard.py, class LeaderboardManager): the file at the *)
(* final path, the file at the temporary path, the store lock, and the     *)
(* threads that call the store.  A player name is the sequence of its code *)
(* points, so that str.lower() and the ordering of names are computed.     *)
(* The "date" field of an entry (the wall clock at the write) is left out. *)
(* The engine and the store never call each other; each specification      *)
(* below runs one of them and holds the other still.                       *)
(*                                                                         *)
(* SnakeGame.__init__ calls _generate_food on line 49, before line 50      *)
(* assigns self.obstacles, which _generate_food reads on line 67.  Every   *)
(* construction therefore ends in an AttributeError, or never ends on a    *)
(* grid of one cell, and no behaviour of the engine has an instance on     *)
(* which a method could be called.  The methods are modelled all the same, *)
(* as what each does when called on an instance; no specification reaches  *)
(* them.                                                                   *)
(***************************************************************************)
EXTENDS Integers, Sequences, FiniteSets, TLC

(* ------------------------------ bounds --------------------------------- *)

\* largest width and largest height the constructor is given
MaxSide == 8
\* update() calls that move or end a game, per game, on a grid of several rows
MaxTicksSmall == 9
\* the same on a one-row grid
MaxTicksLine == 14
\* submit_score calls made in one behaviour of concurrent submissions
MaxSubmits == 4
\* store calls made in one behaviour of the store with failures
MaxCalls == 3
\* times the environment of the store interferes in one behaviour: a killed
\* process, a deleted or overwritten document, a failing file operation
MaxFaults == 2

(* --------------------------- program constants ------------------------- *)

base_speed == 4

\* the (width, height) pairs the constructor is given
GridSizes == (1..MaxSide) \X (1..MaxSide)

Directions == {"UP", "DOWN", "LEFT", "RIGHT"}

\* the default of __init__'s player_name parameter
DefaultName == "Player"

\* the player_name arguments the constructor is given
NameArgs == {DefaultName, "Ann"}

\* restart()'s player_name argument, as a sequence: <<>> is None (the
\* default), <<s>> is the string s
NoName == <<>>

NewNames == {NoName, <<"">>, <<"Ann">>}

\* the attributes __init__ assigns, in the order of assignment
AttrOrder == <<"width", "height", "player_name", "score", "game_over", "paused",
               "snake", "direction", "next_direction", "food", "obstacles",
               "difficulty_level", "base_speed", "speed", "ticks">>

AllAttrs == {AttrOrder[i] : i \in 1..Len(AttrOrder)}

\* the attributes assigned before line 49 calls _generate_food
AttrsBeforeFood == {AttrOrder[i] : i \in 1..9}

VARIABLES
    width, height,        \* grid size
    snake,                \* sequence of positions, head first
    direction,            \* last committed direction
    next_direction,       \* pending direction
    food,                 \* position
    obstacles,            \* set of positions
    score, difficulty_level, speed, ticks,
    game_over, paused,
    player_name,          \* string
    restart_call,         \* <<n, name, w, h>> when the last call was restart(n),
                          \* made with player name `name` on a w x h grid; else <<>>
    attrs,                \* names of the instance attributes assigned so far
    pc,                   \* where the caller's thread is
    ret,                  \* what the last completed call returned
    store                 \* the leaderboard store and its callers, a record:
                          \*   document   the file at the store's final path
                          \*   temp       the file at the store's temporary path
                          \*   lock       the thread holding the store lock, 0 for none
                          \*   process    where the process that owns the store is
                          \*   tpc        per thread: where it is inside a store call
                          \*   call       per thread: the store call it made last
                          \*   local      per thread: submit_score's `leaderboard["players"]`
                          \*   result     per thread: what its last store call returned
                          \*   wrote      per thread: its call has written to the final path
                          \*   submitted  the (lower-case name, score) pairs submitted
                          \*   calls      store calls made so far
                          \*   budget     store calls that may be made
                          \*   faults     times the environment interfered so far

fields == <<width, height, snake, direction, next_direction, food, obstacles,
            score, difficulty_level, speed, ticks, game_over, paused, player_name>>

vars == <<width, height, snake, direction, next_direction, food, obstacles,
          score, difficulty_level, speed, ticks, game_over, paused, player_name,
          restart_call, attrs, pc, ret, store>>

(* ------------------------------ helpers -------------------------------- *)

Min(a, b) == IF a < b THEN a ELSE b

Abs(a) == IF a < 0 THEN 0 - a ELSE a

Range(s) == {s[i] : i \in 1..Len(s)}

\* list.pop(): the list without its last element
Front(s) == SubSeq(s, 1, Len(s) - 1)

\* Direction.value
Delta(d) ==
    CASE d = "UP"    -> <<0, -1>>
      [] d = "DOWN"  -> <<0, 1>>
      [] d = "LEFT"  -> <<-1, 0>>
      [] d = "RIGHT" -> <<1, 0>>

\* the cells random.randint(0, width - 1), random.randint(0, height - 1) can draw
Cells(w, h) == (0..(w - 1)) \X (0..(h - 1))

Center(w, h) == <<w \div 2, h \div 2>>

\* set_direction's test: the two deltas do not sum to (0, 0)
NotReverse(cur, d) ==
    <<Delta(cur)[1] + Delta(d)[1], Delta(cur)[2] + Delta(d)[2]>> # <<0, 0>>

\* set_direction(d), lines 113-117: the pending direction it leaves
SetDirectionResult(cur, pending, d) ==
    IF NotReverse(cur, d) THEN d ELSE pending

\* _generate_food: the cells the rejection loop can return; it returns none
\* (the loop never ends) when this set is empty
GenerateFood(w, h, sn, obs) ==
    {c \in Cells(w, h) : c \notin Range(sn) /\ c \notin obs}

\* the cells _generate_obstacles accepts for a fresh obstacle
ObstacleCells(w, h, sn, fd) ==
    {c \in Cells(w, h) :
        /\ c \notin Range(sn)
        /\ c # fd
        /\ (Abs(c[1] - sn[1][1]) > 3 \/ Abs(c[2] - sn[1][2]) > 3)}

\* the subsets of S with at most k elements, built one accepted draw at a time
RECURSIVE SubsetsUpTo(_, _)
SubsetsUpTo(S, k) ==
    IF k <= 0 THEN {{}}
    ELSE LET prev == SubsetsUpTo(S, k - 1)
         IN  prev \cup {T \cup {c} : T \in prev, c \in S}

\* _generate_obstacles(count): every list the loop can deliver.  Each of the
\* at most max_attempts draws either appends an accepted cell or is rejected;
\* a snake cell is always there to be rejected, so the loop can stop with any
\* number of accepted cells up to count.
GenerateObstacles(count, w, h, sn, fd) ==
    LET max_attempts == 100
    IN  SubsetsUpTo(ObstacleCells(w, h, sn, fd), Min(count, max_attempts))

\* _update_difficulty, line 94
NewDifficulty(sc) == 1 + (sc \div 50)

\* _update_difficulty, line 100, in tenths
SpeedFor(level) == Min(base_speed * 10 + (level - 1) * 15, 120)

\* _update_difficulty, line 104
ObstacleCount(level) == Min(2 + (level - 3) * 2, 10)

\* the level from which _update_difficulty regenerates the obstacles
ObstacleLevel(level) == level >= 3

\* _update_difficulty as a relation between the state at the call (with the
\* snake and food already updated by the caller) and the state at the return
UpdateDifficulty(sc, sn, fd) ==
    LET new_difficulty == NewDifficulty(sc)
    IN  IF new_difficulty # difficulty_level
        THEN /\ difficulty_level' = new_difficulty
             /\ speed' = SpeedFor(new_difficulty)
             /\ IF ObstacleLevel(new_difficulty)
                THEN obstacles' \in GenerateObstacles(ObstacleCount(new_difficulty),
                                                      width, height, sn, fd)
                ELSE UNCHANGED obstacles
        ELSE UNCHANGED <<difficulty_level, speed, obstacles>>

\* budget of moving update() calls per game, by grid
MaxTicks(w, h) == IF h # 1 THEN MaxTicksSmall ELSE MaxTicksLine

(* --------------------- the store: values and helpers ------------------- *)

\* the threads that call the store
Threads == {1, 2}

\* player names, as code points: "Ann", "ann" and "Bob"
NameAnn == <<65, 110, 110>>

NameLowerAnn == <<97, 110, 110>>

NameBob == <<66, 111, 98>>

PlayerNames == {NameAnn, NameLowerAnn, NameBob}

\* the scores and times submitted
Scores == {80, 100, 150}

TimesTaken == {30}

\* the top_n arguments of get_leaderboard
TopNs == {1, 10}

\* a file: absent, text that is no JSON document (cut short by an
\* interrupted write, the empty file included, or followed by foreign
\* text), bytes that cannot be decoded as text, or a complete JSON document
\* with its "players" list
Missing == [kind |-> "missing", players |-> <<>>]

Partial == [kind |-> "partial", players |-> <<>>]

Undecodable == [kind |-> "undecodable", players |-> <<>>]

Json(ps) == [kind |-> "json", players |-> ps]

\* a call and a return value, as records of one shape
NoCall == [op |-> "none", name |-> <<>>, score |-> 0, time_taken |-> 0, top_n |-> 0]

Returned(k, ps, r) == [kind |-> k, list |-> ps, rank |-> r]

NoResult == Returned("none", <<>>, 0)

\* the store while the engine is exercised: there is none
NoStore == store = [process |-> "absent"]

(* ------------------------------- Init ---------------------------------- *)

\* An instance inside __init__, at line 49: lines 34-46 have run, food and
\* the later attributes do not exist yet (their variables hold placeholders)
InitConstructing ==
    \E g \in GridSizes, name \in NameArgs :
        /\ width = g[1]
        /\ height = g[2]
        /\ score = 0
        /\ game_over = FALSE
        /\ paused = FALSE
        /\ snake = <<Center(g[1], g[2])>>
        /\ direction = "RIGHT"
        /\ next_direction = "RIGHT"
        /\ food = <<0, 0>>
        /\ obstacles = {}
        /\ difficulty_level = 1
        /\ speed = base_speed * 10
        /\ ticks = 0
        /\ player_name = name
        /\ restart_call = <<>>
        /\ attrs = AttrsBeforeFood
        /\ pc = "__init__"
        /\ ret = "None"
        /\ NoStore

Init == InitConstructing

(* ------------------------------ actions -------------------------------- *)

\* __init__ from line 49 on: _generate_food draws a cell; a cell on the snake
\* is rejected and the loop goes round; for any other cell line 67 reads
\* self.obstacles, which line 50 has not assigned yet, and the AttributeError
\* leaves the constructor.
Construct ==
    /\ pc = "__init__"
    /\ \E c \in Cells(width, height) :
          IF c \in Range(snake)
          THEN UNCHANGED pc
          ELSE /\ "obstacles" \notin attrs
               /\ pc' = "AttributeError"
    /\ UNCHANGED <<fields, restart_call, attrs, ret, store>>

\* the engine: a constructor call from line 49 on
Next == Construct

Spec == Init /\ [][Next]_vars

(* ---------------------- the methods of an instance --------------------- *)

\* set_direction(d)
SetDirection(d) ==
    /\ pc = "idle"
    /\ next_direction' = SetDirectionResult(direction, next_direction, d)
    /\ ret' = "None"
    /\ restart_call' = <<>>
    /\ UNCHANGED <<width, height, snake, direction, food, obstacles, score,
                   difficulty_level, speed, ticks, game_over, paused, player_name,
                   attrs, pc, store>>

\* toggle_pause()
TogglePause ==
    /\ pc = "idle"
    /\ paused' = ~paused
    /\ ret' = "None"
    /\ restart_call' = <<>>
    /\ UNCHANGED <<width, height, snake, direction, next_direction, food, obstacles,
                   score, difficulty_level, speed, ticks, game_over, player_name,
                   attrs, pc, store>>

\* restart(), lines 190-191: the name after `if player_name:`; None and the
\* empty string are both false
Renamed(name, new_name) ==
    IF new_name # NoName /\ new_name[1] # "" THEN new_name[1] ELSE name

\* restart(player_name): the name is set first; _generate_food runs on line
\* 199 with the new snake and the obstacles of the game that ends, which
\* line 200 then clears
Restart(new_name) ==
    /\ pc = "idle"
    /\ player_name' = Renamed(player_name, new_name)
    /\ restart_call' = <<new_name, player_name, width, height>>
    /\ score' = 0
    /\ game_over' = FALSE
    /\ paused' = FALSE
    /\ snake' = <<Center(width, height)>>
    /\ direction' = "RIGHT"
    /\ next_direction' = "RIGHT"
    /\ IF GenerateFood(width, height, <<Center(width, height)>>, obstacles) = {}
       THEN /\ pc' = "_generate_food"
            /\ UNCHANGED <<food, obstacles, difficulty_level, speed, ticks, ret>>
       ELSE /\ food' \in GenerateFood(width, height, <<Center(width, height)>>, obstacles)
            /\ obstacles' = {}
            /\ difficulty_level' = 1
            /\ speed' = base_speed * 10
            /\ ticks' = 0
            /\ ret' = "None"
            /\ UNCHANGED pc
    /\ UNCHANGED <<width, height, attrs, store>>

\* the cell update() computes on lines 133-135
NewHead(sn, d) == <<sn[1][1] + Delta(d)[1], sn[1][2] + Delta(d)[2]>>

\* lines 138-139
HitsWall(c) == c[1] < 0 \/ c[1] >= width \/ c[2] < 0 \/ c[2] >= height

\* line 144
HitsSelf(c, sn) == c \in Range(sn)

\* line 149
HitsObstacle(c, obs) == c \in obs

\* the guard of line 126
NoOp == game_over \/ paused

\* update()
Tick ==
    /\ pc = "idle"
    /\ restart_call' = <<>>
    /\ UNCHANGED store
    /\ IF NoOp
       THEN /\ ret' = (IF game_over THEN "False" ELSE "True")
            /\ UNCHANGED <<fields, attrs, pc>>
       ELSE /\ ticks < MaxTicks(width, height)
            /\ ticks' = ticks + 1
            /\ direction' = next_direction
            /\ LET new_head == NewHead(snake, next_direction)
               IN  IF HitsWall(new_head) \/ HitsSelf(new_head, snake)
                         \/ HitsObstacle(new_head, obstacles)
                   THEN /\ game_over' = TRUE
                        /\ ret' = "False"
                        /\ UNCHANGED <<snake, food, obstacles, score,
                                       difficulty_level, speed, pc>>
                   ELSE IF new_head = food
                   THEN LET grown == <<new_head>> \o snake
                        IN  /\ snake' = grown
                            /\ score' = score + 10
                            /\ UNCHANGED game_over
                            /\ IF GenerateFood(width, height, grown, obstacles) = {}
                               THEN /\ pc' = "_generate_food"
                                    /\ UNCHANGED <<food, obstacles, difficulty_level,
                                                   speed, ret>>
                               ELSE /\ \E f \in GenerateFood(width, height, grown, obstacles) :
                                          /\ food' = f
                                          /\ UpdateDifficulty(score + 10, grown, f)
                                    /\ ret' = "True"
                                    /\ UNCHANGED pc
                   ELSE /\ snake' = <<new_head>> \o Front(snake)
                        /\ ret' = "True"
                        /\ UNCHANGED <<food, obstacles, score, difficulty_level,
                                       speed, game_over, pc>>
            /\ UNCHANGED <<width, height, next_direction, paused, player_name, attrs>>

(* ------------------------ the store: pure parts ------------------------ *)

Max(a, b) == IF a > b THEN a ELSE b

\* str.lower()
Lower(name) ==
    [i \in 1..Len(name) |-> IF name[i] \in 65..90 THEN name[i] + 32 ELSE name[i]]

\* a < b on two str values: the first code point that differs decides, and a
\* proper prefix is the smaller one
StrLess(a, b) ==
    \E k \in 1..(Min(Len(a), Len(b)) + 1) :
        /\ \A i \in 1..(k - 1) : a[i] = b[i]
        /\ IF k <= Len(a) /\ k <= Len(b)
           THEN a[k] < b[k]
           ELSE k > Len(a) /\ k <= Len(b)

\* a comparison of the names as they are spelled
NameMatchesExactly(a, b) == a = b

\* p["name"].lower() == player_name.lower()
NameMatches(a, b) == Lower(a) = Lower(b)

\* key(a) < key(b) for key = lambda p: (-p["best_score"], p["name"])
SortKeyBefore(a, b) ==
    \/ 0 - a.best_score < 0 - b.best_score
    \/ a.best_score = b.best_score /\ StrLess(a.name, b.name)

\* e put into the sorted list ps behind every entry whose key is not larger
InsertSorted(e, ps) ==
    LET later == {i \in 1..Len(ps) : SortKeyBefore(e, ps[i])}
        at == IF later = {} THEN Len(ps) + 1
              ELSE CHOOSE i \in later : \A j \in later : i <= j
    IN  SubSeq(ps, 1, at - 1) \o <<e>> \o SubSeq(ps, at, Len(ps))

\* sorted(players, key=...) and players.sort(key=...): a stable sort
RECURSIVE SortPlayers(_)
SortPlayers(ps) ==
    IF ps = <<>> THEN <<>>
    ELSE InsertSorted(ps[Len(ps)], SortPlayers(Front(ps)))

\* _read_leaderboard, line 55: the failures of open and json.load it catches
Caught(kind) == kind \in {"missing", "partial"}

\* _read_leaderboard lets the exception through
ReadRaises(f) == f.kind # "json" /\ ~Caught(f.kind)

\* _read_leaderboard: the "players" list of the dictionary it returns
ReadLeaderboard(f) == IF f.kind = "json" THEN f.players ELSE <<>>

\* the index of the first entry the loop of lines 102-105 stops at, 0 for None
FindPlayer(ps, name) ==
    LET found == {i \in 1..Len(ps) : NameMatches(ps[i].name, name)}
    IN  IF found = {} THEN 0 ELSE CHOOSE i \in found : \A j \in found : i <= j

\* a test that lets an equal score through
ScoreNotBetterStrict(sc, best) == sc < best

\* line 109
ScoreNotBetter(sc, best) == sc <= best

\* submit_score, lines 108-128: the list it is about to write, for a score
\* that is not refused
UpdatedPlayers(ps, name, sc, tt) ==
    LET i == FindPlayer(ps, name)
    IN  SortPlayers(IF i # 0
                    THEN [ps EXCEPT ![i].best_score = sc, ![i].time_taken = tt]
                    ELSE Append(ps, [name |-> name, best_score |-> sc,
                                     time_taken |-> tt]))

\* players[:top_n]
Slice(ps, n) ==
    IF n >= 0 THEN SubSeq(ps, 1, Min(n, Len(ps)))
    ELSE SubSeq(ps, 1, Max(Len(ps) + n, 0))

\* get_player_rank, lines 192-196: the rank in the sorted list, 0 for None
RankOf(ps, name) == FindPlayer(SortPlayers(ps), name)

(* ---------------------- the store: state and steps --------------------- *)

\* the variables of the engine
engine == <<width, height, snake, direction, next_direction, food, obstacles,
            score, difficulty_level, speed, ticks, game_over, paused, player_name,
            restart_call, attrs, pc, ret>>

\* the engine while the store is exercised: there is no instance
NoEngine ==
    /\ width = 0
    /\ height = 0
    /\ snake = <<>>
    /\ direction = "RIGHT"
    /\ next_direction = "RIGHT"
    /\ food = <<0, 0>>
    /\ obstacles = {}
    /\ score = 0
    /\ difficulty_level = 1
    /\ speed = base_speed * 10
    /\ ticks = 0
    /\ game_over = FALSE
    /\ paused = FALSE
    /\ player_name = DefaultName
    /\ restart_call = <<>>
    /\ attrs = {}
    /\ pc = "absent"
    /\ ret = "None"

\* a store with the document doc at its final path, no temporary file, the
\* lock free and no call under way
FreshStore(doc, proc, budget) ==
    [document |-> doc, temp |-> Missing, lock |-> 0, process |-> proc,
     budget |-> budget,
     tpc |-> [t \in Threads |-> "idle"],
     call |-> [t \in Threads |-> NoCall],
     local |-> [t \in Threads |-> <<>>],
     result |-> [t \in Threads |-> NoResult],
     wrote |-> [t \in Threads |-> FALSE],
     submitted |-> {}, calls |-> 0, faults |-> 0]

\* before the process starts on a path that holds no file
InitStore == NoEngine /\ store = FreshStore(Missing, "down", MaxCalls)

\* LeaderboardManager(filepath), lines 31-36: the file is created only if
\* nothing exists at the path
NewManager ==
    /\ store.process = "down"
    /\ store' = [store EXCEPT !.process = IF store.document.kind # "missing"
                                          THEN "up"
                                          ELSE "_initialize_leaderboard"]
    /\ UNCHANGED engine

\* _initialize_leaderboard, line 42: open(self.filepath, 'w') creates the
\* file at the final path, empty
InitializeOpen ==
    /\ store.process = "_initialize_leaderboard"
    /\ store' = [store EXCEPT !.document = Partial, !.process = "json.dump"]
    /\ UNCHANGED engine

\* _initialize_leaderboard, line 43, and the close of the file
InitializeDump ==
    /\ store.process = "json.dump"
    /\ store' = [store EXCEPT !.document = Json(<<>>), !.process = "up"]
    /\ UNCHANGED engine

\* a lock that is never found taken
LockFreeAlways == TRUE

\* `with self.lock` can enter
LockFree == store.lock = 0

\* the caller of thread t gets r back and the thread leaves `with self.lock`
Leave(st, t, r) ==
    [st EXCEPT !.tpc[t] = "idle", !.lock = 0, !.result[t] = r]

\* thread t calls submit_score(name, sc, tt)
CallSubmit(t, name, sc, tt) ==
    /\ store.process = "up"
    /\ store.tpc[t] = "idle"
    /\ store.calls < store.budget
    /\ store' = [store EXCEPT
                    !.tpc[t] = "acquire",
                    !.call[t] = [op |-> "submit_score", name |-> name, score |-> sc,
                                 time_taken |-> tt, top_n |-> 0],
                    !.result[t] = NoResult,
                    !.wrote[t] = FALSE,
                    !.submitted = @ \cup {<<Lower(name), sc>>},
                    !.calls = @ + 1]
    /\ UNCHANGED engine

\* submit_score, line 97
Acquire(t) ==
    /\ store.tpc[t] = "acquire"
    /\ LockFree
    /\ store' = [store EXCEPT !.tpc[t] = "read", !.lock = t]
    /\ UNCHANGED engine

\* submit_score, lines 98-128: read the document, look the player up, refuse
\* a score that is not better, else update or append and sort
ReadAndModify(t) ==
    /\ store.tpc[t] = "read"
    /\ LET c == store.call[t]
           ps == ReadLeaderboard(store.document)
           i == FindPlayer(ps, c.name)
       IN  store' =
              IF ReadRaises(store.document)
              THEN Leave(store, t, Returned("raised", <<>>, 0))
              ELSE IF i # 0 /\ ScoreNotBetter(c.score, ps[i].best_score)
              THEN Leave(store, t, Returned("False", <<>>, 0))
              ELSE [store EXCEPT
                       !.tpc[t] = "open",
                       !.local[t] = UpdatedPlayers(ps, c.name, c.score, c.time_taken)]
    /\ UNCHANGED engine

\* _write_leaderboard, line 72: open(temp_filepath, 'w')
OpenTemp(t) ==
    /\ store.tpc[t] = "open"
    /\ store' = [store EXCEPT !.tpc[t] = "dump", !.temp = Partial]
    /\ UNCHANGED engine

\* _write_leaderboard, line 73, and the close of the file
DumpTemp(t) ==
    /\ store.tpc[t] = "dump"
    /\ store' = [store EXCEPT !.tpc[t] = "move", !.temp = Json(store.local[t])]
    /\ UNCHANGED engine

\* os.rename(temp, final): the temporary file takes the place of the
\* document in one step
MovedOver(old, new) == new

\* _write_leaderboard, line 76, when the os.rename inside shutil.move
\* succeeds; then submit_score, line 132
MoveTemp(t) ==
    /\ store.tpc[t] = "move"
    /\ store' = Leave([store EXCEPT !.document = MovedOver(store.document, store.temp),
                                    !.temp = Missing,
                                    !.wrote[t] = TRUE],
                      t, Returned("True", <<>>, 0))
    /\ UNCHANGED engine

\* the environment may interfere once more
MayFail == store.faults < MaxFaults

\* line 72 raises: nothing was opened
OpenTempFails(t) ==
    /\ store.tpc[t] = "open"
    /\ MayFail
    /\ store' = [store EXCEPT !.tpc[t] = "cleanup", !.faults = @ + 1]
    /\ UNCHANGED engine

\* line 73 raises: the temporary file stays cut short
DumpTempFails(t) ==
    /\ store.tpc[t] = "dump"
    /\ MayFail
    /\ store' = [store EXCEPT !.tpc[t] = "cleanup", !.faults = @ + 1]
    /\ UNCHANGED engine

\* line 76: the os.rename inside shutil.move raises OSError and replaces
\* nothing; shutil.move goes on to copy the temporary file over the final
\* path and to unlink it.  What fails from here on in the same call is the
\* same trouble and is not counted again.
RenameFails(t) ==
    /\ store.tpc[t] = "move"
    /\ MayFail
    /\ store' = [store EXCEPT !.tpc[t] = "copy", !.faults = @ + 1]
    /\ UNCHANGED engine

\* line 76, the copy inside shutil.move: the final path is opened for
\* writing in place, which cuts the document to nothing
CopyOpen(t) ==
    /\ store.tpc[t] = "copy"
    /\ store' = [store EXCEPT !.tpc[t] = "copy_write", !.document = Partial,
                              !.wrote[t] = TRUE]
    /\ UNCHANGED engine

\* line 76 raises: the final path cannot be opened and the document stays
CopyOpenFails(t) ==
    /\ store.tpc[t] = "copy"
    /\ store' = [store EXCEPT !.tpc[t] = "cleanup"]
    /\ UNCHANGED engine

\* What the final path holds after the copy has written the bytes of the
\* file new through the descriptor CopyOpen opened, when the path holds doc
\* at that moment.  A document deleted from outside since stays missing: the
\* bytes go to the unlinked file.  Bytes put there from outside since stay as
\* they are when they came as a new file or are longer than the copy and
\* their rest cannot be decoded, are text that is no JSON when the rest can
\* be decoded, and give way to the copy when they are shorter.
CopiedOver(doc, new) ==
    CASE doc.kind = "missing" -> {doc}
      [] doc.kind = "undecodable" -> {doc, Partial, new}
      [] OTHER -> {new}

\* line 76, the copy inside shutil.move: the bytes of the temporary file are
\* written through the descriptor of the final path
CopyWrite(t) ==
    /\ store.tpc[t] = "copy_write"
    /\ \E doc \in CopiedOver(store.document, store.temp) :
          store' = [store EXCEPT !.tpc[t] = "copystat", !.document = doc]
    /\ UNCHANGED engine

\* the longest list of a document completed from bytes written from outside
MaxForeignLen == 3

\* The documents that bytes put at the final path from outside can be
\* completed to by the first bytes of a copy: a copy of '{"players": ...}'
\* whose first byte is replaced reads as that document again once the copy
\* has written its own first byte, '{', over it.  The list is whatever the
\* outside writer chose: entries in any order, one player more than once,
\* the list of the call itself.
ForeignEntries ==
    {[name |-> n, best_score |-> sc, time_taken |-> tt] :
       n \in PlayerNames, sc \in Scores, tt \in TimesTaken}

ForeignDocuments ==
    {Json(ps) : ps \in UNION {[1..n -> ForeignEntries] : n \in 0..MaxForeignLen}}

\* What the final path holds after a copy that stopped part-way: the file
\* as it was, or, for bytes put there from outside, of which the copy
\* replaced only the first ones, also text that is no JSON when the part
\* written covers what could not be decoded, and a complete document of
\* other contents when the part written completes the bytes after it
CutShort(doc) ==
    IF doc.kind = "undecodable"
    THEN {doc, Partial} \cup ForeignDocuments
    ELSE {doc}

\* line 76 raises: the copy stops part-way; what it wrote so far stays, and
\* so does what lay behind it
CopyWriteFails(t) ==
    /\ store.tpc[t] = "copy_write"
    /\ \E doc \in CutShort(store.document) :
          store' = [store EXCEPT !.tpc[t] = "cleanup", !.document = doc]
    /\ UNCHANGED engine

\* line 76, the copystat inside shutil.move's copy2: it sets the times and
\* the mode of the final path, which has to exist
CopyStat(t) ==
    /\ store.tpc[t] = "copystat"
    /\ store.document.kind # "missing"
    /\ store' = [store EXCEPT !.tpc[t] = "unlink"]
    /\ UNCHANGED engine

\* line 76 raises: copystat fails, as it always does on a final path that
\* was deleted from outside, and the temporary file is still there
CopyStatFails(t) ==
    /\ store.tpc[t] = "copystat"
    /\ store' = [store EXCEPT !.tpc[t] = "cleanup"]
    /\ UNCHANGED engine

\* line 76, the os.unlink inside shutil.move removes the temporary file
\* after the copy; then submit_score, line 132
UnlinkTemp(t) ==
    /\ store.tpc[t] = "unlink"
    /\ store' = Leave([store EXCEPT !.temp = Missing], t, Returned("True", <<>>, 0))
    /\ UNCHANGED engine

\* line 76 raises after the copy: the os.unlink inside shutil.move fails,
\* with the final path written and the temporary file still there
UnlinkTempFails(t) ==
    /\ store.tpc[t] = "unlink"
    /\ store' = [store EXCEPT !.tpc[t] = "cleanup"]
    /\ UNCHANGED engine

\* lines 79-80: the temporary file after `if exists(): unlink()`
AfterUnlink(f) == IF f.kind # "missing" THEN Missing ELSE f

\* _write_leaderboard, lines 77-81: remove the temporary file and raise
\* again; the exception leaves submit_score through `with self.lock`
Cleanup(t) ==
    /\ store.tpc[t] = "cleanup"
    /\ store' = Leave([store EXCEPT !.temp = AfterUnlink(store.temp)],
                      t, Returned("raised", <<>>, 0))
    /\ UNCHANGED engine

\* _write_leaderboard, line 80 raises: the unlink of the handler fails, the
\* temporary file stays, and the exception of the unlink leaves submit_score
\* through `with self.lock`
CleanupFails(t) ==
    /\ store.tpc[t] = "cleanup"
    /\ store.temp.kind # "missing"
    /\ store' = Leave(store, t, Returned("raised", <<>>, 0))
    /\ UNCHANGED engine

\* a read call of thread t: it takes the lock, reads the document, answers
\* and gives the lock back, and writes nothing
Answer(t, c, r) ==
    /\ store.process = "up"
    /\ store.tpc[t] = "idle"
    /\ LockFree
    /\ store.calls < store.budget
    /\ store' = [store EXCEPT
                    !.call[t] = c,
                    !.result[t] = IF ReadRaises(store.document)
                                  THEN Returned("raised", <<>>, 0)
                                  ELSE r,
                    !.calls = @ + 1]
    /\ UNCHANGED engine

\* get_leaderboard(top_n)
GetLeaderboard(t, n) ==
    Answer(t, [NoCall EXCEPT !.op = "get_leaderboard", !.top_n = n],
           Returned("list", Slice(SortPlayers(ReadLeaderboard(store.document)), n), 0))

\* get_player_best_score(player_name)
GetPlayerBestScore(t, name) ==
    LET ps == ReadLeaderboard(store.document)
        i == FindPlayer(ps, name)
    IN  Answer(t, [NoCall EXCEPT !.op = "get_player_best_score", !.name = name],
               IF i = 0 THEN Returned("None", <<>>, 0)
               ELSE Returned("entry", <<ps[i]>>, 0))

\* get_player_rank(player_name)
GetPlayerRank(t, name) ==
    LET r == RankOf(ReadLeaderboard(store.document), name)
    IN  Answer(t, [NoCall EXCEPT !.op = "get_player_rank", !.name = name],
               IF r = 0 THEN Returned("None", <<>>, 0)
               ELSE Returned("rank", <<>>, r))

\* get_all_players()
GetAllPlayers(t) ==
    Answer(t, [NoCall EXCEPT !.op = "get_all_players"],
           Returned("list", SortPlayers(ReadLeaderboard(store.document)), 0))

\* the process is killed: its threads and its lock are gone, the files stay
Kill ==
    /\ store.process # "down"
    /\ MayFail
    /\ store' = [store EXCEPT
                    !.process = "down",
                    !.lock = 0,
                    !.tpc = [t \in Threads |-> "idle"],
                    !.call = [t \in Threads |-> NoCall],
                    !.local = [t \in Threads |-> <<>>],
                    !.result = [t \in Threads |-> NoResult],
                    !.wrote = [t \in Threads |-> FALSE],
                    !.faults = @ + 1]
    /\ UNCHANGED engine

\* the document is overwritten from outside with bytes that are no text in
\* the encoding open() reads with
GarbleDocument ==
    /\ store.process = "up"
    /\ store.document.kind # "undecodable"
    /\ MayFail
    /\ store' = [store EXCEPT !.document = Undecodable, !.faults = @ + 1]
    /\ UNCHANGED engine

\* the document is deleted from outside while the store is up
RemoveDocument ==
    /\ store.process = "up"
    /\ store.document.kind # "missing"
    /\ MayFail
    /\ store' = [store EXCEPT !.document = Missing, !.faults = @ + 1]
    /\ UNCHANGED engine

\* the calls of one thread
SubmitSteps(t) ==
    \/ \E name \in PlayerNames, sc \in Scores, tt \in TimesTaken :
           CallSubmit(t, name, sc, tt)
    \/ Acquire(t)
    \/ ReadAndModify(t)
    \/ OpenTemp(t)
    \/ DumpTemp(t)
    \/ MoveTemp(t)

FailingSteps(t) ==
    \/ OpenTempFails(t)
    \/ DumpTempFails(t)
    \/ RenameFails(t)
    \/ CopyOpen(t)
    \/ CopyOpenFails(t)
    \/ CopyWrite(t)
    \/ CopyWriteFails(t)
    \/ CopyStat(t)
    \/ CopyStatFails(t)
    \/ UnlinkTemp(t)
    \/ UnlinkTempFails(t)
    \/ Cleanup(t)
    \/ CleanupFails(t)

ReadCalls(t) ==
    \/ \E n \in TopNs : GetLeaderboard(t, n)
    \/ \E name \in PlayerNames : GetPlayerBestScore(t, name)
    \/ \E name \in PlayerNames : GetPlayerRank(t, name)
    \/ GetAllPlayers(t)

\* the store of a process that was constructed on an empty path, with
\* concurrent callers of submit_score and nothing that fails
InitSubmit == NoEngine /\ store = FreshStore(Json(<<>>), "up", MaxSubmits)

NextSubmit == \E t \in Threads : SubmitSteps(t)

SpecSubmit == InitSubmit /\ [][NextSubmit]_vars

\* The store from before its construction on, with every call, failing file
\* operations, a killed process and a deleted document; one thread calls.
NextStore ==
    \/ NewManager
    \/ InitializeOpen
    \/ InitializeDump
    \/ Kill
    \/ RemoveDocument
    \/ GarbleDocument
    \/ \E t \in {1} : SubmitSteps(t) \/ FailingSteps(t) \/ ReadCalls(t)

SpecStore == InitStore /\ [][NextStore]_vars

(* ------------------------------ claims --------------------------------- *)

\* the best_score stored for a name, whatever its letter case; -1 for none
BestOf(f, name) ==
    LET found == {i \in 1..Len(f.players) : Lower(f.players[i].name) = Lower(name)}
    IN  IF f.kind # "json" \/ found = {} THEN 0 - 1
        ELSE CHOOSE b \in {f.players[i].best_score : i \in found} :
                 \A i \in found : f.players[i].best_score <= b

\* C13: submit_score returns False exactly when an entry with the same name,
\* letter case ignored, holds a best_score that the score does not exceed,
\* and then nothing is written; it returns True otherwise, and the entry then
\* holds the score, which is the larger of the old best and the score; no
\* step lowers the best_score stored for any name.
SubmitKeepsBest ==
    [][ \A t \in Threads :
           LET c == store.call[t]
               best == BestOf(store.document, c.name)
           IN  /\ (store.tpc[t] = "read" /\ store'.tpc[t] = "idle")
                     => /\ store'.result[t].kind = "False"
                        /\ best >= 0 /\ c.score <= best
                        /\ store'.document = store.document
                        /\ store'.temp = store.temp
               /\ (store.tpc[t] = "read" /\ store'.tpc[t] = "open")
                     => (best < 0 \/ c.score > best)
               /\ (store.tpc[t] = "move" /\ store'.tpc[t] = "idle")
                     => /\ store'.result[t].kind = "True"
                        /\ best < 0 \/ c.score > best
                        /\ BestOf(store'.document, c.name) = Max(best, c.score)
               /\ \A name \in PlayerNames :
                     BestOf(store'.document, name) >= BestOf(store.document, name) ]_vars

\* 100 was submitted for a name, 80 was refused for it and 150, under another
\* spelling of the name, was taken
SubmitKeepsBestWitness ==
    /\ store.process = "up"
    /\ store.call[1].op = "submit_score"
    /\ store.call[1].score = 80
    /\ store.result[1].kind = "False"
    /\ store.call[2].op = "submit_score"
    /\ store.call[2].score = 150
    /\ store.call[2].name # store.call[1].name
    /\ Lower(store.call[2].name) = Lower(store.call[1].name)
    /\ store.result[2].kind = "True"
    /\ <<Lower(store.call[1].name), 100>> \in store.submitted
    /\ BestOf(store.document, store.call[1].name) = 150

\* C14: from an empty leaderboard on, whatever the interleaving of the
\* submit_score calls, no two entries of the document have names that are
\* equal when letter case is ignored.
OneEntryPerName ==
    store.process = "up" =>
        /\ store.document.kind = "json"
        /\ \A i, j \in 1..Len(store.document.players) :
              i # j => Lower(store.document.players[i].name)
                          # Lower(store.document.players[j].name)

\* a score submitted as "ann" went into the entry that "Ann" had created
OneEntryPerNameWitness ==
    /\ store.process = "up"
    /\ \E t \in Threads :
          /\ store.call[t].name = NameLowerAnn
          /\ store.result[t].kind = "True"
    /\ Len(store.document.players) = 2
    /\ \E i \in 1..2 : store.document.players[i].name = NameAnn

\* a comes before b by larger score, then by the name as code points
ByCodePoint(a, b) ==
    \/ a.best_score > b.best_score
    \/ a.best_score = b.best_score /\ StrLess(a.name, b.name)

\* a comes before b by larger score, then by the name as the alphabet has it,
\* "ann" before "Bob"
Alphabetical(a, b) ==
    \/ a.best_score > b.best_score
    \/ a.best_score = b.best_score /\ StrLess(Lower(a.name), Lower(b.name))

\* what a read call of this step answers, measured on the document it read,
\* a document it can decode:
\* get_all_players gives every entry in the order Before, get_leaderboard(n)
\* the first n of them, get_player_rank the place of the matching entry
ReadsInOrder(Before(_, _)) ==
    \A t \in Threads :
        LET c == store'.call[t]
            r == store'.result[t]
            ps == IF store.document.kind = "json" THEN store.document.players ELSE <<>>
            m == {i \in 1..Len(ps) : Lower(ps[i].name) = Lower(c.name)}
            Sorted == \A i, j \in 1..Len(r.list) : i < j => Before(r.list[i], r.list[j])
            FromDoc == \A i \in 1..Len(r.list) : \E j \in 1..Len(ps) : r.list[i] = ps[j]
        IN  (store'.calls = store.calls + 1 /\ store.tpc[t] = "idle" /\ store'.tpc[t] = "idle"
             /\ store.document.kind # "undecodable")
            => /\ c.op = "get_all_players"
                  => /\ r.kind = "list"
                     /\ Len(r.list) = Len(ps)
                     /\ \A j \in 1..Len(ps) : \E i \in 1..Len(r.list) : r.list[i] = ps[j]
                     /\ Sorted
               /\ c.op = "get_leaderboard"
                  => /\ r.kind = "list"
                     /\ Len(r.list) = Min(c.top_n, Len(ps))
                     /\ FromDoc
                     /\ Sorted
                     /\ \A j \in 1..Len(ps) :
                           (\A i \in 1..Len(r.list) : r.list[i] # ps[j])
                           => \A i \in 1..Len(r.list) : Before(r.list[i], ps[j])
               /\ c.op = "get_player_rank"
                  => IF m = {} THEN r.kind = "None"
                     ELSE /\ r.kind = "rank"
                          /\ \E i \in m :
                                r.rank = 1 + Cardinality({j \in 1..Len(ps) :
                                                             Before(ps[j], ps[i])})

\* C15: get_all_players returns every entry ordered by best_score descending,
\* then by name ascending; get_leaderboard(n) is its first n entries;
\* get_player_rank is the 1-indexed place of the entry that matches with
\* letter case ignored, None without one, and of two players with equal
\* scores the alphabetically earlier name gets the smaller rank.
ReadsAlphabetical == [][ReadsInOrder(Alphabetical)]_vars

\* The order the reads do follow: best_score descending, then the name as
\* Python compares strings, by code points, every upper-case letter before
\* every lower-case one.
ReadsByCodePoint == [][ReadsInOrder(ByCodePoint)]_vars

\* "ann" and "Bob" hold 100 each and get_player_rank("ann") has answered 2
ReadsByCodePointWitness ==
    /\ store.process = "up"
    /\ store.document.kind = "json"
    /\ Len(store.document.players) = 2
    /\ store.document.players[1].name = NameBob
    /\ store.document.players[2].name = NameLowerAnn
    /\ store.document.players[1].best_score = store.document.players[2].best_score
    /\ store.call[1].op = "get_player_rank"
    /\ store.call[1].name = NameLowerAnn
    /\ store.result[1].kind = "rank"
    /\ store.result[1].rank = 2

\* C16: when every submit_score call of every thread has returned, the
\* document holds, for every name submitted (letter case ignored), an entry
\* whose best_score is the largest score submitted for that name.
NoLostUpdate ==
    (store.process = "up" /\ \A t \in Threads : store.tpc[t] = "idle")
    => /\ store.document.kind = "json"
       /\ \A p \in store.submitted :
             /\ BestOf(store.document, p[1]) >= p[2]
             /\ \E q \in store.submitted :
                   q[1] = p[1] /\ q[2] = BestOf(store.document, p[1])

\* two threads have made two calls each, for two players, and all have
\* returned
NoLostUpdateWitness ==
    /\ store.process = "up"
    /\ store.calls = 4
    /\ \A t \in Threads :
          /\ store.tpc[t] = "idle"
          /\ store.result[t].kind = "True"
    /\ Len(store.document.players) = 2
    /\ Cardinality(store.submitted) = 4

\* C17: at every point in time, store initialization and a write killed
\* part-way included, the file at the final path is a complete document, the
\* prior one or the new one, and never a partial one, because every write
\* goes to a temporary path and replaces the final path in one step.
DocumentNeverPartial == store.document.kind # "partial"

\* C18: when a step of the write sequence inside submit_score fails, the
\* error reaches the caller, the temporary file does not exist afterwards,
\* the call has written nothing to the final path, and the lock is released.
FailedWriteCleansUp ==
    [][ \A t \in Threads :
           (store.tpc[t] = "cleanup" /\ store'.tpc[t] # "cleanup"
            /\ store'.process = "up")
             => /\ store'.tpc[t] = "idle"
                /\ store'.result[t].kind = "raised"
                /\ store'.temp.kind = "missing"
                /\ ~store.wrote[t]
                /\ store'.lock = 0 ]_vars

\* a submit_score for a second player has raised after os.rename failed, the
\* copy rewrote the final path and no unlink went through: the document and
\* the temporary file both hold the two players
FailedWriteLeavesBoth ==
    /\ store.process = "up"
    /\ store.call[1].op = "submit_score"
    /\ store.result[1].kind = "raised"
    /\ store.wrote[1]
    /\ store.lock = 0
    /\ Len(store.local[1]) = 2
    /\ store.document = Json(store.local[1])
    /\ store.temp = Json(store.local[1])

\* what the calls of this step do on a document of one of these kinds: the
\* reads answer the empty list or None, a submit_score reads nothing, and
\* what it puts in place is the list it made, the submitted entry alone
TreatedAsEmpty(kinds) ==
    \A t \in Threads :
        LET c == store'.call[t]
            r == store'.result[t]
            sub == store.call[t]
            unread == store.document.kind \in kinds
        IN  store'.process = "up"
            => /\ (unread /\ store'.calls = store.calls + 1
                   /\ store.tpc[t] = "idle" /\ store'.tpc[t] = "idle")
                  => /\ c.op \in {"get_leaderboard", "get_all_players"}
                        => (r.kind = "list" /\ r.list = <<>>)
                     /\ c.op \in {"get_player_best_score", "get_player_rank"}
                        => r.kind = "None"
               /\ (unread /\ store.tpc[t] = "read" /\ store'.tpc[t] # "read")
                  => /\ store'.tpc[t] = "open"
                     /\ store'.local[t] = <<[name |-> sub.name,
                                            best_score |-> sub.score,
                                            time_taken |-> sub.time_taken]>>
               /\ store.tpc[t] \in {"open", "dump", "move", "copy", "copy_write",
                                    "copystat", "unlink"}
                  => store'.local[t] = store.local[t]
               /\ (store.tpc[t] = "move" /\ store'.tpc[t] = "idle")
                  => /\ store'.result[t].kind = "True"
                     /\ store'.document = Json(store.local[t])

\* C19: with the document missing or unparseable, get_leaderboard and
\* get_all_players return the empty list and get_player_best_score and
\* get_player_rank return None, none of them raising, and a submit_score
\* returns True and leaves a complete document that holds the submitted
\* entry and nothing else.
MissingDocumentIsEmpty ==
    [][TreatedAsEmpty({"missing", "partial", "undecodable"})]_vars

\* The same for a document that is missing or is text cut short, the two
\* failures _read_leaderboard catches.
CaughtDocumentIsEmpty == [][TreatedAsEmpty({"missing", "partial"})]_vars

\* the document holds bytes that are no text and a read has raised
UndecodableDocumentRaises ==
    /\ store.process = "up"
    /\ store.document.kind = "undecodable"
    /\ store.call[1].op = "get_all_players"
    /\ store.result[1].kind = "raised"

\* a first player was written, the document was deleted, and the
\* submit_score of a second player has read nothing and is about to put a
\* document with that player alone in place
CaughtDocumentIsEmptyWitness ==
    /\ store.process = "up"
    /\ store.faults = 1
    /\ store.document.kind = "missing"
    /\ store.tpc[1] = "move"
    /\ \E p, q \in store.submitted : p[1] # q[1]
    /\ store.temp = Json(<<[name |-> store.call[1].name,
                           best_score |-> store.call[1].score,
                           time_taken |-> store.call[1].time_taken]>>)

\* C20: every call of the engine returns when the cell sampler is fair: a
\* construction that is inside the rejection loop of _generate_food has a
\* cell that ends the loop, which a fair sampler draws in the end, and the
\* loop ends by returning the cell, so that the constructor returns.
FoodSearchEnds ==
    /\ pc = "__init__" => GenerateFood(width, height, snake, {}) # {}
    /\ pc # "AttributeError"

\* a constructor call on the 3x3 grid has drawn a cell off the snake and has
\* ended with the AttributeError of line 67; food, obstacles and the
\* attributes of lines 53-58 were never assigned
ConstructionRaises ==
    /\ pc = "AttributeError"
    /\ width = 3 /\ height = 3
    /\ attrs = AttrsBeforeFood
    /\ "food" \notin attrs
    /\ GenerateFood(width, height, snake, {}) # {}

StoreTypeOK ==
    /\ store.document.kind \in {"missing", "partial", "undecodable", "json"}
    /\ store.temp.kind \in {"missing", "partial", "json"}
    /\ store.lock \in {0} \cup Threads
    /\ store.process \in {"down", "_initialize_leaderboard", "json.dump", "up"}
    /\ \A t \in Threads :
          /\ store.tpc[t] \in {"idle", "acquire", "read", "open", "dump", "move",
                                "copy", "copy_write", "copystat", "unlink", "cleanup"}
          /\ store.wrote[t] \in BOOLEAN
          /\ store.result[t].kind \in {"none", "True", "False", "raised", "list",
                                        "entry", "None", "rank"}
    /\ store.calls \in 0..store.budget
    /\ store.faults \in 0..MaxFaults

TypeOK ==
    /\ store.process = "absent" \/ StoreTypeOK
    /\ <<width, height>> \in GridSizes \cup {<<0, 0>>}
    /\ snake \in Seq(Cells(width, height))
    /\ direction \in Directions
    /\ next_direction \in Directions
    /\ pc = "absent" \/ food \in Cells(width, height)
    /\ obstacles \subseteq Cells(width, height)
    /\ score \in Nat
    /\ difficulty_level \in Nat
    /\ speed \in Nat
    /\ ticks \in Nat
    /\ game_over \in BOOLEAN
    /\ paused \in BOOLEAN
    /\ player_name \in NameArgs
    /\ restart_call = <<>>
    /\ attrs \in {{}, AttrsBeforeFood}
    /\ pc \in {"__init__", "AttributeError", "absent"}
    /\ ret = "None"

====
